---- MODULE Spec2Model ----
(***************************************************************************)
(* Model of core/base_task_service.py (BaseTask, BaseTaskService) and      *)
(* core/duckmail_client.py (DuckMailClient).                               *)
(*                                                                         *)
(* An optional value (Python None / a value) is the empty tuple or a       *)
(* one-element tuple.                                                      *)
(***************************************************************************)
EXTENDS Integers, Sequences, FiniteSets, TLC

None == <<>>
Some(v) == <<v>>

Min(a, b) == IF a <= b THEN a ELSE b
Max(a, b) == IF a >= b THEN a ELSE b

(***************************************************************************)
(* Bounds of the model.                                                    *)
(***************************************************************************)
\* number of task ids the callers may submit
MaxTasks == 2
\* _append_log calls, over all tasks, under Spec (the task life cycle)
MaxTaskLogs == 1
\* _append_log calls on the task under SpecLog; above the cap of 200
MaxAppends == 203
\* the first VaryLevels calls under SpecLog choose any level, later ones "info"
VaryLevels == 1
\* counter updates the job bodies make, over all tasks
MaxCount == 1

TaskIds == 1..MaxTasks
Threads == {"worker", "loop"}
\* the levels callers log at ("debug" stands for any level the service does not know)
Levels == {"info", "warning", "error", "debug"}
\* the levels the job bodies of Spec log at
JobLevels == {"info", "error"}

\* the cap of a task's logs
LogCap == 200

VARIABLES
    tasks,            \* self._tasks: task id -> BaseTask
    current_task_id,  \* self._current_task_id
    log_lock,         \* self._log_lock: the thread holding it, or None
    pc,               \* each thread's position inside _append_log
    queue,            \* the single worker's queue of scheduled jobs
    history,          \* per task, every entry _append_log was called with, in lock order
    logger_out,       \* what the step just taken emitted to the process logger
    ret,              \* what the operation just completed returned
    called            \* the lookup the step just taken was, if it was one

taskVars == <<tasks, current_task_id, log_lock, pc, queue, history, logger_out, ret, called>>

(***************************************************************************)
(* BaseTask                                                                *)
(***************************************************************************)
TaskStatus == {"pending", "running", "success", "failed"}
Terminal == {"success", "failed"}

BaseTask(id, created) ==
    [id |-> id, status |-> "pending", progress |-> 0, success_count |-> 0,
     fail_count |-> 0, created_at |-> created, finished_at |-> None,
     results |-> <<>>, error |-> None, logs |-> <<>>]

to_dict(task) ==
    [id |-> task.id, status |-> task.status, progress |-> task.progress,
     success_count |-> task.success_count, fail_count |-> task.fail_count,
     created_at |-> task.created_at, finished_at |-> task.finished_at,
     results |-> task.results, error |-> task.error, logs |-> task.logs]

(***************************************************************************)
(* BaseTaskService._append_log                                             *)
(***************************************************************************)
\* time.time() / time.localtime(): the model keeps no clock, every reading is
\* the same opaque value
Now == "now"

\* the step just taken was no lookup
NoCall == [op |-> "other", arg |-> 0]

\* a thread that is not inside _append_log; inside, it holds the call's
\* arguments and the status the task had when the entry was appended
Idle == [at |-> "idle", task |-> 0, level |-> "", message |-> 0, status |-> ""]

LogEntry(time, level, message) == [time |-> time, level |-> level, message |-> message]

\* the entry is built and never stored
AppendEntryDropped(logs, entry) == logs

\* line 133: task.logs.append(entry)
AppendEntry(logs, entry) == Append(logs, entry)

\* task.logs[:200] in place of task.logs[-200:]
TruncateLogsOldest(logs) ==
    IF Len(logs) > LogCap THEN SubSeq(logs, 1, LogCap) ELSE logs

\* lines 134-135: if len(task.logs) > 200: task.logs = task.logs[-200:]
TruncateLogs(logs) ==
    IF Len(logs) > LogCap THEN SubSeq(logs, Len(logs) - LogCap + 1, Len(logs)) ELSE logs

\* lines 137-143: the severity the entry is mirrored at
LoggerSeverity(level) ==
    IF level = "warning" THEN "warning"
    ELSE IF level = "error" THEN "error"
    ELSE "info"

\* lines 127-133: build the entry, take the log lock, append
AppendLogLocked(th, t, level, message) ==
    /\ pc[th] = Idle
    /\ t \in DOMAIN tasks
    /\ log_lock = None
    /\ LET entry == LogEntry(Now, level, message) IN
        /\ tasks' = [tasks EXCEPT ![t].logs = AppendEntry(@, entry)]
        /\ history' = [history EXCEPT ![t] = Append(@, entry)]
        /\ pc' = [pc EXCEPT ![th] = [at |-> "appended", task |-> t, level |-> level,
                                     message |-> message, status |-> tasks[t].status]]
    /\ log_lock' = Some(th)
    /\ logger_out' = None
    /\ called' = NoCall
    /\ ret' = None
    /\ UNCHANGED <<current_task_id, queue>>

\* lines 134-143: truncate, release the lock, mirror to the logger, return
AppendLogFinish(th) ==
    /\ pc[th].at = "appended"
    /\ log_lock = Some(th)
    /\ LET t == pc[th].task IN
        tasks' = [tasks EXCEPT ![t].logs = TruncateLogs(@)]
    /\ log_lock' = None
    /\ logger_out' = Some([severity |-> LoggerSeverity(pc[th].level), message |-> pc[th].message])
    /\ called' = NoCall
    /\ pc' = [pc EXCEPT ![th] = Idle]
    /\ ret' = None
    /\ UNCHANGED <<current_task_id, queue, history>>

(***************************************************************************)
(* BaseTaskService.get_task / get_current_task, BaseTask.to_dict: no lock  *)
(***************************************************************************)
\* an unknown id is answered with the first task
get_task_or_first(id) ==
    IF id \in DOMAIN tasks THEN Some(tasks[id])
    ELSE IF 1 \in DOMAIN tasks THEN Some(tasks[1])
    ELSE None

\* lines 108-110: self._tasks.get(task_id)
get_task(id) == IF id \in DOMAIN tasks THEN Some(tasks[id]) ELSE None

get_current_task ==
    IF current_task_id = None THEN None ELSE get_task(current_task_id[1])

GetTask(id) ==
    /\ ret' = get_task(id)
    /\ logger_out' = None
    /\ called' = [op |-> "get_task", arg |-> id]
    /\ UNCHANGED <<tasks, current_task_id, log_lock, pc, queue, history>>

GetCurrentTask ==
    /\ ret' = get_current_task
    /\ logger_out' = None
    /\ called' = [op |-> "get_current_task", arg |-> 0]
    /\ UNCHANGED <<tasks, current_task_id, log_lock, pc, queue, history>>

ToDict(t) ==
    /\ t \in DOMAIN tasks
    /\ ret' = Some(to_dict(tasks[t]))
    /\ logger_out' = None
    /\ called' = NoCall
    /\ UNCHANGED <<tasks, current_task_id, log_lock, pc, queue, history>>

(***************************************************************************)
(* The task runner of spec section 4.4 (submit and the execution wrapper   *)
(* live in the subclasses of BaseTaskService).                             *)
(***************************************************************************)
Active == {t \in DOMAIN tasks : tasks[t].status \in {"pending", "running"}}
Running == {t \in DOMAIN tasks : tasks[t].status = "running"}

\* submit: under the registry lock; rejected if a job is currently Running
Submit(id) ==
    /\ id = Cardinality(DOMAIN tasks) + 1
    /\ IF Running # {}
         THEN /\ ret' = Some([accepted |-> FALSE])
              /\ UNCHANGED <<tasks, current_task_id, queue, history>>
         ELSE /\ tasks' = [t \in DOMAIN tasks \cup {id} |->
                              IF t = id THEN BaseTask(id, Now) ELSE tasks[t]]
              /\ history' = [t \in DOMAIN tasks \cup {id} |->
                              IF t = id THEN <<>> ELSE history[t]]
              /\ current_task_id' = Some(id)
              /\ queue' = Append(queue, id)
              /\ ret' = Some([accepted |-> TRUE])
    /\ logger_out' = None
    /\ called' = NoCall
    /\ UNCHANGED <<log_lock, pc>>

\* the execution wrapper on the single worker: Pending -> Running
WorkerStart ==
    /\ queue # <<>>
    /\ Running = {}
    /\ pc["worker"] = Idle
    /\ tasks' = [tasks EXCEPT ![Head(queue)].status = "running"]
    /\ queue' = Tail(queue)
    /\ logger_out' = None
    /\ called' = NoCall
    /\ ret' = None
    /\ UNCHANGED <<current_task_id, log_lock, pc, history>>

RECURSIVE SumOver(_, _)
SumOver(f, S) ==
    IF S = {} THEN 0
    ELSE LET x == CHOOSE y \in S : TRUE IN f[x] + SumOver(f, S \ {x})

\* counter updates made so far, _append_log calls made so far
Counted == SumOver([t \in DOMAIN tasks |-> tasks[t].progress], DOMAIN tasks)
Logged == SumOver([t \in DOMAIN tasks |-> Len(history[t])], DOMAIN tasks)

\* the job body's counter-mutation capability, scoped to its own task
JobCount(t, ok) ==
    /\ t \in Running
    /\ pc["worker"] = Idle
    /\ Counted < MaxCount
    /\ tasks' = [tasks EXCEPT
                    ![t].progress = @ + 1,
                    ![t].success_count = IF ok THEN @ + 1 ELSE @,
                    ![t].fail_count = IF ok THEN @ ELSE @ + 1,
                    ![t].results = Append(@, [ok |-> ok])]
    /\ logger_out' = None
    /\ called' = NoCall
    /\ ret' = None
    /\ UNCHANGED <<current_task_id, log_lock, pc, queue, history>>

\* the job body completes normally: Running -> Success
JobSucceed(t) ==
    /\ t \in Running
    /\ pc["worker"] = Idle
    /\ tasks' = [tasks EXCEPT ![t].status = "success", ![t].finished_at = Some(Now)]
    /\ logger_out' = None
    /\ called' = NoCall
    /\ ret' = None
    /\ UNCHANGED <<current_task_id, log_lock, pc, queue, history>>

\* the job body signals a failure: Running -> Failed
JobFail(t) ==
    /\ t \in Running
    /\ pc["worker"] = Idle
    /\ tasks' = [tasks EXCEPT ![t].status = "failed", ![t].finished_at = Some(Now),
                               ![t].error = Some("job failed")]
    /\ logger_out' = None
    /\ called' = NoCall
    /\ ret' = None
    /\ UNCHANGED <<current_task_id, log_lock, pc, queue, history>>

\* _append_log as the task service's callers use it: the job body on the worker
\* thread logs to its own running task, any other thread to any task it holds
TaskAppendLog(th, t, level) ==
    /\ t \in DOMAIN tasks
    /\ Logged < MaxTaskLogs
    /\ th = "worker" => t \in Running
    /\ AppendLogLocked(th, t, level, Len(history[t]) + 1)

\* _append_log called on one task object by both threads, beyond the cap
BufferAppendLog(th, level) ==
    /\ Len(history[1]) < MaxAppends
    /\ (Len(history[1]) >= VaryLevels => level = "info")
    /\ AppendLogLocked(th, 1, level, Len(history[1]) + 1)

(***************************************************************************)
(* DuckMailClient.  A Python string is a sequence of atoms (characters, or *)
(* opaque chunks such as a domain); a value that may be None, a string or  *)
(* something else carries its kind.                                        *)
(***************************************************************************)
\* login logs token[:20]
TokenPrefixLen == 20
\* _request logs res.text[:500]
BodyLogLimit == 500
\* register_account: random.choices(..., k=10) and str(int(time.time()))[-4:]
RandLen == 10
StampLen == 4

\* the handles the rebuild routine may return are 0..MaxHandle
MaxHandle == 3

\* the texts given to _extract_code are made of at most MaxPieces pieces
MaxPieces == 3

\* poll_for_code arguments
MaxTimeout == 3
MaxInterval == 2

NoneV == [kind |-> "none", s |-> <<>>]
Str(s) == [kind |-> "str", s |-> s]
\* a truthy value that is not a string (a JSON number)
NumV == [kind |-> "num", s |-> <<>>]

\* Python truthiness: not None, not ""
Truthy(v) == v.kind = "num" \/ (v.kind = "str" /\ v.s # <<>>)

Take(s, n) == SubSeq(s, 1, Min(n, Len(s)))

\* seq contains sub as a run of consecutive atoms
Contains(seq, sub) ==
    \E i \in 1..(Len(seq) - Len(sub) + 1) : SubSeq(seq, i, i + Len(sub) - 1) = sub

Repeat(c, n) == [i \in 1..n |-> c]

VARIABLES
    email,          \* self.email
    password,       \* self.password
    account_id,     \* self.account_id
    token,          \* self.token
    api_key,        \* self.api_key
    log_callback,   \* self.log_callback: "none", "ok" (returns) or "raises"
    log_body,       \* the DUCKMAIL_LOG_BODY switch
    log,            \* the _log calls of the step just taken
    requests,       \* the requests the step just taken issued
    mret,           \* the session operation just completed and what it returned
    poll            \* the frame of poll_for_code

mailVars == <<email, password, account_id, token, api_key, log_callback, log_body,
              log, requests, mret, poll>>

(***************************************************************************)
(* What the provider may answer to one request.                            *)
(***************************************************************************)
\* the bearer tokens the provider hands out: longer than the logged prefix
TokenA == Str(Repeat("A", TokenPrefixLen + 1))
TokenB == Str(Repeat("B", TokenPrefixLen + 1))

Member(id, domain) == [id |-> id, domain |-> domain]

\* a parsed JSON object; kind "other" is valid JSON that is no object,
\* kind "invalid" makes res.json() raise
Dict == [kind |-> "dict", token |-> NoneV, id |-> NoneV, members |-> <<>>,
         subject |-> NoneV, text |-> NoneV, html |-> NoneV]
NotADict == [Dict EXCEPT !.kind = "other"]
Invalid == [Dict EXCEPT !.kind = "invalid"]

\* a response: a transport exception, or a status with a body and its parse
Response(status, content, json) ==
    [exc |-> FALSE, status |-> status, content |-> content, json |-> json]
TransportError == [exc |-> TRUE, status |-> 0, content |-> <<>>, json |-> Dict]

\* the body of a JSON object that carries the string value v
Body(v) == <<"{">> \o v.s \o <<"}">>

(***************************************************************************)
(* DuckMailClient._log and _request                                        *)
(***************************************************************************)
Msg(level, text, arg) == [level |-> level, text |-> text, arg |-> arg]

\* one _log call
LogCall(level, text, arg) == <<Msg(level, text, arg)>>

\* _log without its try/except
LogOutcomeUnguarded(cb) == IF cb = "raises" THEN "raised" ELSE "returned"

\* lines 232-237: how a _log call ends for the caller: the callback is only
\* called when there is one, and its exception is swallowed
LogOutcome(cb) == IF cb = "raises" THEN "swallowed" ELSE "returned"

\* the messages among msgs that reached the callback
Passed(cb, msgs) == IF cb = "none" THEN <<>> ELSE msgs

\* does an operation that made the _log calls msgs end with the callback's exception
LogRaised(cb, msgs) == msgs # <<>> /\ LogOutcome(cb) = "raised"

\* f"Bearer {value}": the header carries the value
Bearer(value) == Some(value)

\* lines 39-42: the Authorization header sent, if any; auth is the caller's
AuthHeader(key, auth) ==
    IF auth # None THEN auth
    ELSE IF key # <<>> THEN Bearer(Str(key))
    ELSE None

\* line 57-58: is the response body logged
LogsBody(switch, res) == res.content # <<>> /\ (switch \/ res.status >= 400)

\* lines 37-66; json: the json body sent, or NoneV; auth: the caller's
\* Authorization header or None; res: the provider's answer
Request(key, switch, method, path, auth, json, res) ==
    LET req == [method |-> method, path |-> path, auth |-> AuthHeader(key, auth)]
        sent == LogCall("info", "[HTTP] " \o method \o " " \o path, <<>>)
                \o (IF json # NoneV THEN LogCall("info", "[HTTP] Request body", json.s) ELSE <<>>)
    IN IF res.exc
       THEN [raised |-> TRUE, res |-> res, req |-> <<req>>,
             log |-> sent \o LogCall("error", "[HTTP] Request failed", <<>>)]
       ELSE [raised |-> FALSE, res |-> res, req |-> <<req>>,
             log |-> sent \o LogCall("info", "[HTTP] Response", <<ToString(res.status)>>)
                     \o (IF LogsBody(switch, res)
                         THEN LogCall("info", "[HTTP] Response body",
                                      Take(res.content, BodyLogLimit))
                         ELSE <<>>)]

\* res.json() if res.content else {}
JsonOf(res) == IF res.content = <<>> THEN Dict ELSE res.json
\* does reading a field of it with .get raise
GetRaises(json) == json.kind # "dict"

(***************************************************************************)
(* DuckMailClient._extract_code: the three regular expressions             *)
(***************************************************************************)
Digits == {"0", "1", "2", "3", "4", "5", "6", "7", "8", "9"}
UpperSeq == <<"A", "B", "C", "D", "E", "F", "G", "H", "I", "J", "K", "L", "M",
              "N", "O", "P", "Q", "R", "S", "T", "U", "V", "W", "X", "Y", "Z">>
LowerSeq == <<"a", "b", "c", "d", "e", "f", "g", "h", "i", "j", "k", "l", "m",
              "n", "o", "p", "q", "r", "s", "t", "u", "v", "w", "x", "y", "z">>
Uppers == {UpperSeq[i] : i \in DOMAIN UpperSeq}
Lowers == {LowerSeq[i] : i \in DOMAIN LowerSeq}
\* the three characters of the Chinese keyword, and the full-width colon
Han == <<"<yan>", "<zheng>", "<ma>">>
WideColon == "<wide-colon>"

\* [A-Za-z0-9], [A-Z0-9], \d, \w, \s, [:<wide-colon>], and what . does not match
IsAlnum(c) == c \in Digits \cup Uppers \cup Lowers
IsUpperOrDigit(c) == c \in Digits \cup Uppers
IsDigit(c) == c \in Digits
IsWord(c) == IsAlnum(c) \/ c = "_" \/ c \in {Han[i] : i \in DOMAIN Han}
IsSpace(c) == c \in {" ", "\n", "\t"}
IsColon(c) == c \in {":", WideColon}
IsNewline(c) == c = "\n"

\* re.IGNORECASE
Lower(c) ==
    IF c \in Uppers THEN LowerSeq[CHOOSE i \in DOMAIN UpperSeq : UpperSeq[i] = c] ELSE c

Keywords ==
    << Han,
       <<"c", "o", "d", "e">>,
       <<"v", "e", "r", "i", "f", "i", "c", "a", "t", "i", "o", "n">>,
       <<"p", "a", "s", "s", "c", "o", "d", "e">>,
       <<"p", "i", "n">> >>

\* the keyword kw stands at position i of text, whatever the case
KeywordAt(text, i, kw) ==
    /\ i + Len(kw) - 1 <= Len(text)
    /\ \A j \in 1..Len(kw) : Lower(text[i + j - 1]) = kw[j]

\* \b between positions p - 1 and p of text
Boundary(text, p) ==
    LET before == p > 1 /\ IsWord(text[p - 1])
        after == p <= Len(text) /\ IsWord(text[p])
    IN before # after

\* the length of the longest run of characters satisfying Is(_) that starts at p
RunLength(text, p, Is(_)) ==
    LET stops == {q \in p..Len(text) : ~Is(text[q])}
    IN IF stops = {} THEN Len(text) - p + 1
       ELSE (CHOOSE q \in stops : \A r \in stops : q <= r) - p

\* \s*([A-Za-z0-9]{4,8})\b tried at position p: the token's place, or <<>>.
\* \s* gives nothing back that helps (a space is no token character), and the
\* token cannot end inside a run of token characters (no \b there)
TokenAt(text, p) ==
    LET q == p + RunLength(text, p, IsSpace)
        n == RunLength(text, q, IsAlnum)
    IN IF n >= 4 /\ n <= 8 /\ Boundary(text, q + n) THEN <<q, n>> ELSE <<>>

\* the least member of a set of positions
First(S) == CHOOSE s \in S : \A r \in S : s <= r

\* the characters of the token found at <<place, length>>
TokenText(text, tok) == SubSeq(text, tok[1], tok[1] + tok[2] - 1)

\* the colons from p on, on p's line, that a token follows
ColonsFrom(text, p) ==
    {j \in p..Len(text) :
        /\ IsColon(text[j])
        /\ \A k \in p..(j - 1) : ~IsNewline(text[k])
        /\ TokenAt(text, j + 1) # <<>>}

\* .*? takes the fewest characters: the token after the first of the colons
TokenAfter(text, colons) ==
    IF colons = {} THEN <<>> ELSE TokenAt(text, First(colons) + 1)

\* strategy 1 tried with the keyword ending before position p: .*? takes the
\* fewest characters, none of them a newline, up to a colon a token follows
LabeledFrom(text, p) == TokenAfter(text, ColonsFrom(text, p))

\* the matches of strategy 1: keyword k of the alternation at position i
LabelMatches(text) ==
    {m \in (1..Len(text)) \X DOMAIN Keywords :
        /\ KeywordAt(text, m[1], Keywords[m[2]])
        /\ LabeledFrom(text, m[1] + Len(Keywords[m[2]])) # <<>>}

\* re.search: the leftmost start, and there the first alternative that matches
FirstMatch(matches) ==
    CHOOSE m \in matches :
        \A n \in matches : m[1] < n[1] \/ (m[1] = n[1] /\ m[2] <= n[2])

\* match.group(1) of the match m
LabelGroup(text, m) == TokenText(text, LabeledFrom(text, m[1] + Len(Keywords[m[2]])))

LabeledAmong(text, matches) ==
    IF matches = {} THEN <<>> ELSE LabelGroup(text, FirstMatch(matches))

\* lines 246-249
Labeled(text) == LabeledAmong(text, LabelMatches(text))

\* the starts of the matches of \bX{6}\b, X a character class
StandaloneRuns(text, Is(_)) ==
    {p \in 1..(Len(text) - 5) :
        /\ \A j \in 0..5 : Is(text[p + j])
        /\ Boundary(text, p)
        /\ Boundary(text, p + 6)}

\* matches[0] of the matches that start at the positions runs
FirstRun(text, runs) ==
    IF runs = {} THEN <<>> ELSE TokenText(text, <<First(runs), 6>>)

\* lines 252-254: re.findall(r"\b\d{6}\b"), the first match
SixDigits(text) == FirstRun(text, StandaloneRuns(text, IsDigit))

\* lines 259-261 with the digit test left out
HasLetterOnly(candidate) ==
    \E j \in DOMAIN candidate : candidate[j] \in Uppers \cup Lowers

\* lines 259-261
HasLetterAndDigit(candidate) ==
    /\ \E j \in DOMAIN candidate : candidate[j] \in Uppers \cup Lowers
    /\ \E j \in DOMAIN candidate : candidate[j] \in Digits

\* lines 257-262: re.findall(r"\b[A-Z0-9]{6}\b"), the first mixed candidate
Mixed(text) ==
    FirstRun(text, {p \in StandaloneRuns(text, IsUpperOrDigit) :
                       HasLetterAndDigit(SubSeq(text, p, p + 5))})

\* lines 246-254 with the 6-digit strategy tried before the labeled one
FirstFoundDigitsFirst(labeled, digits, mixed) ==
    IF digits # <<>> THEN Str(digits)
    ELSE IF labeled # <<>> THEN Str(labeled)
    ELSE IF mixed # <<>> THEN Str(mixed)
    ELSE NoneV

\* lines 249, 254, 262, 264: the first strategy that found something
FirstFound(labeled, digits, mixed) ==
    IF labeled # <<>> THEN Str(labeled)
    ELSE IF digits # <<>> THEN Str(digits)
    ELSE IF mixed # <<>> THEN Str(mixed)
    ELSE NoneV

\* lines 240-264
ExtractCode(text) ==
    IF text = <<>> THEN NoneV
    ELSE FirstFound(Labeled(text), SixDigits(text), Mixed(text))

(***************************************************************************)
(* DuckMailClient.set_credentials, _get_domain, register_account, login    *)
(***************************************************************************)
DefaultDomain == <<"duck.com">>

\* lines 219-230: the provider's first domain, "duck.com" on any failure
GetDomain(res) ==
    LET r == Request(api_key, log_body, "GET", "/domains", None, NoneV, res)
        data == JsonOf(res)
        found == /\ ~r.raised
                 /\ res.status = 200
                 /\ ~GetRaises(data)
                 /\ data.members # <<>>
                 /\ Truthy(data.members[1].domain)
    IN [domain |-> IF found THEN data.members[1].domain.s ELSE DefaultDomain,
        log |-> r.log, req |-> r.req]

\* lines 82-92, the body of the try: exc when it raises
RegisterTry(address, pwd, res) ==
    LET r == Request(api_key, log_body, "POST", "/accounts", None,
                     Str(address.s \o pwd.s), res)
        created == ~r.raised /\ res.status \in {200, 201}
        data == JsonOf(res)
    IN IF r.raised \/ (created /\ GetRaises(data))
       THEN [exc |-> TRUE, ok |-> FALSE, account_id |-> account_id, log |-> r.log, req |-> r.req]
       ELSE IF created
       THEN [exc |-> FALSE, ok |-> TRUE, account_id |-> data.id, req |-> r.req,
             log |-> r.log \o LogCall("info", "DuckMail register success", <<>>)]
       ELSE [exc |-> FALSE, ok |-> FALSE, account_id |-> account_id, log |-> r.log, req |-> r.req]

\* lines 93-95: the handler logs and returns False
RegisterExcept(out) ==
    [out EXCEPT !.ret = FALSE, !.raised = FALSE,
                !.log = @ \o LogCall("error", "DuckMail register failed: e", <<>>)]

\* lines 76-79; rand and stamp are the random part and the time suffix drawn
Address(rand, stamp, domain) == Str(<<"t">> \o stamp \o rand \o <<"@">> \o domain)
Password(rand, stamp) == Str(<<"P", "w", "d">> \o rand \o stamp)

\* lines 78-98 once the domain d is known and the try has ended as b
RegisterOutcome(d, address, pwd, b) ==
    LET out == [email |-> address, password |-> pwd, account_id |-> b.account_id,
                raised |-> FALSE, ret |-> b.ok, req |-> d.req \o b.req,
                log |-> d.log \o LogCall("info", "DuckMail domain", d.domain)
                              \o LogCall("info", "DuckMail register email", address.s)
                              \o b.log]
    IN IF b.exc THEN RegisterExcept(out)
       ELSE IF b.ok THEN out
       ELSE [out EXCEPT !.log = @ \o LogCall("error", "DuckMail register failed", <<>>)]

\* lines 78-98 with the address and the password generated
RegisterAs(d, address, pwd, res) ==
    RegisterOutcome(d, address, pwd, RegisterTry(address, pwd, res))

\* lines 76-98 with the domain d
RegisterIn(d, rand, stamp, res) ==
    RegisterAs(d, Address(rand, stamp, d.domain), Password(rand, stamp), res)

\* lines 68-98
RegisterAccount(domain, rand, stamp, domRes, res) ==
    RegisterIn(IF Truthy(domain)
               THEN [domain |-> domain.s, log |-> <<>>, req |-> <<>>]
               ELSE GetDomain(domRes),
               rand, stamp, res)

\* token[:20]: a string's prefix; anything else cannot be sliced
SliceRaises(v) == v.kind # "str"

\* lines 105-117, the body of the try
LoginTry(res) ==
    LET r == Request(api_key, log_body, "POST", "/token", None,
                     Str(email.s \o password.s), res)
        data == JsonOf(res)
        ok == ~r.raised /\ res.status = 200
    IN IF r.raised \/ (ok /\ GetRaises(data))
       THEN [exc |-> TRUE, ok |-> FALSE, token |-> token, log |-> r.log, req |-> r.req]
       ELSE IF ok /\ Truthy(data.token)
       THEN IF SliceRaises(data.token)
            THEN [exc |-> TRUE, ok |-> FALSE, token |-> data.token, log |-> r.log, req |-> r.req]
            ELSE [exc |-> FALSE, ok |-> TRUE, token |-> data.token, req |-> r.req,
                  log |-> r.log \o LogCall("info", "DuckMail login success, token: ...",
                                           Take(data.token.s, TokenPrefixLen))]
       ELSE [exc |-> FALSE, ok |-> FALSE, token |-> token, log |-> r.log, req |-> r.req]

\* lines 118-120: the handler logs and returns False
LoginExcept(out) ==
    [out EXCEPT !.ret = FALSE, !.raised = FALSE,
                !.log = @ \o LogCall("error", "DuckMail login failed: e", <<>>)]

\* lines 105-123 once the try has ended as b
LoginOutcome(b) ==
    LET out == [ret |-> b.ok, raised |-> FALSE, token |-> b.token, req |-> b.req,
                log |-> b.log]
    IN IF b.exc THEN LoginExcept(out)
       ELSE IF b.ok THEN out
       ELSE [out EXCEPT !.log = @ \o LogCall("error", "DuckMail login failed", <<>>)]

\* lines 100-123
Login(res) ==
    IF ~Truthy(email) \/ ~Truthy(password)
    THEN [ret |-> FALSE, raised |-> FALSE, token |-> token, log |-> <<>>, req |-> <<>>]
    ELSE LoginOutcome(LoginTry(res))

(***************************************************************************)
(* DuckMailClient.fetch_verification_code                                  *)
(***************************************************************************)
RECURSIVE Join(_)
\* "".join(str(item) for item in fragments)
Join(fragments) ==
    IF fragments = <<>> THEN <<>> ELSE Head(fragments) \o Join(Tail(fragments))

\* lines 170-177: payload.get(field) or "", a list joined; <<>> is also the
\* empty list
Normalize(v) ==
    IF v.kind = "list" THEN Join(v.s)
    ELSE IF v.kind = "str" THEN v.s
    ELSE <<>>
\* line 179: text_content + html_content raises unless both are strings by then
ConcatRaises(text, html) == text.kind = "num" \/ html.kind = "num"

(***************************************************************************)
(* The provider's mailbox: a message has an id, a text and an html body.   *)
(***************************************************************************)
Message(id, text, html) == [id |-> id, text |-> text, html |-> html]
Ok == <<"{", "}">>

\* the answer to GET /messages
ListResponse(box, mode) ==
    CASE mode = "ok" ->
            Response(200, Ok, [Dict EXCEPT !.members =
                                  [i \in DOMAIN box |-> Member(box[i].id, NoneV)]])
      [] mode = "exc" -> TransportError
      [] mode = "denied" -> Response(401, <<"e">>, Dict)
      [] mode = "empty" -> Response(200, <<>>, Dict)
      [] mode = "invalid" -> Response(200, <<"x">>, Invalid)
      [] mode = "other" -> Response(200, <<"[", "]">>, NotADict)

\* the answer to GET /messages/{id}
DetailResponse(box, id, mode) ==
    LET found == {i \in DOMAIN box : box[i].id = id}
        m == box[CHOOSE i \in found : TRUE]
    IN CASE mode = "ok" /\ found # {} ->
               Response(200, Ok, [Dict EXCEPT !.id = id, !.text = m.text, !.html = m.html])
         [] mode = "ok" /\ found = {} -> Response(404, <<"e">>, Dict)
         [] mode = "exc" -> TransportError
         [] mode = "denied" -> Response(401, <<"e">>, Dict)
         [] mode = "empty" -> Response(200, <<>>, Dict)
         [] mode = "invalid" -> Response(200, <<"x">>, Invalid)
         [] mode = "other" -> Response(200, <<"[", "]">>, NotADict)

\* lines 181-184
CodeLog(code) ==
    IF Truthy(code) THEN LogCall("info", "DuckMail extracted code", code.s)
    ELSE LogCall("warning", "DuckMail no code found in message", <<>>)

\* lines 180-185
FetchFound(code, before, req) ==
    [exc |-> FALSE, ret |-> code, req |-> req, log |-> before \o CodeLog(code)]

\* lines 167-185: the message read; so far the requests req were sent and the
\* messages before were logged
FetchRead(payload, before, req) ==
    IF GetRaises(payload)
    THEN [exc |-> TRUE, ret |-> NoneV, log |-> before, req |-> req]
    ELSE IF ConcatRaises(payload.text, payload.html)
    THEN [exc |-> TRUE, ret |-> NoneV, req |-> req,
          log |-> before \o LogCall("info", "DuckMail message subject", <<>>)]
    ELSE FetchFound(ExtractCode(Normalize(payload.text) \o Normalize(payload.html)),
                    before \o LogCall("info", "DuckMail message subject", <<>>), req)

\* lines 158-185: the first message is read, r2 being the request's outcome
FetchDetail(r2, before, req) ==
    IF r2.raised
    THEN [exc |-> TRUE, ret |-> NoneV, log |-> before \o r2.log, req |-> req \o r2.req]
    ELSE IF r2.res.status # 200
    THEN [exc |-> FALSE, ret |-> NoneV, log |-> before \o r2.log, req |-> req \o r2.req]
    ELSE FetchRead(JsonOf(r2.res), before \o r2.log, req \o r2.req)

\* lines 156-185: the first message of the listing has the id msg_id
FetchMessage(tok, box, detailMode, msg_id, before, req) ==
    FetchDetail(Request(api_key, log_body, "GET", "/messages/" \o msg_id.s[1], Bearer(tok), NoneV,
                        DetailResponse(box, msg_id, detailMode)),
                before \o LogCall("info", "DuckMail fetching message", msg_id.s), req)

\* the newest-last reading: messages[-1]
LastMessage(messages) == messages[Len(messages)]

\* line 151: messages[0]
FirstMessage(messages) == messages[1]

\* lines 146-185: the listing answered with the document data
FetchListed(tok, box, detailMode, data, before, req) ==
    IF GetRaises(data)
    THEN [exc |-> TRUE, ret |-> NoneV, log |-> before, req |-> req]
    ELSE IF data.members = <<>> \/ ~Truthy(FirstMessage(data.members).id)
    THEN [exc |-> FALSE, ret |-> NoneV, req |-> req,
          log |-> before \o LogCall("info", "DuckMail messages count", <<>>)]
    ELSE FetchMessage(tok, box, detailMode, FirstMessage(data.members).id,
                      before \o LogCall("info", "DuckMail messages count", <<>>), req)

\* lines 136-185: r1 is the outcome of the listing request
FetchList(tok, box, detailMode, r1) ==
    IF r1.raised
    THEN [exc |-> TRUE, ret |-> NoneV, log |-> r1.log, req |-> r1.req]
    ELSE IF r1.res.status # 200
    THEN [exc |-> FALSE, ret |-> NoneV, req |-> r1.req,
          log |-> r1.log \o LogCall("warning", "DuckMail messages request failed", <<>>)]
    ELSE FetchListed(tok, box, detailMode, JsonOf(r1.res), r1.log, r1.req)

\* lines 132-185, the body of the try, with the held token tok; the provider
\* holds the messages box and answers the listing and the read in the given modes
FetchTry(tok, box, listMode, detailMode) ==
    FetchList(tok, box, detailMode,
              Request(api_key, log_body, "GET", "/messages", Bearer(tok), NoneV,
                      ListResponse(box, listMode)))

\* the result of the lazy login is ignored
LoginFailedIgnored(needed, ok) == FALSE

\* line 127-129: does fetch stop because the lazy login failed
LoginFailed(needed, ok) == needed /\ ~ok

\* lines 187-189: the handler logs and returns None
FetchExcept(out) ==
    [out EXCEPT !.ret = NoneV, !.raised = FALSE,
                !.log = @ \o LogCall("error", "DuckMail fetch code failed: e", <<>>)]

\* every call logs in again
NeedsLoginAlways(tok) == TRUE

\* lines 127 and 198: if not self.token
NeedsLogin(tok) == ~Truthy(tok)

\* lines 127-128 and 198-199: if not self.token, login; l.needed: was it called
EnsureToken(loginRes) ==
    IF NeedsLogin(token)
    THEN [needed |-> TRUE, out |-> Login(loginRes)]
    ELSE [needed |-> FALSE,
          out |-> [ret |-> TRUE, raised |-> FALSE, token |-> token, log |-> <<>>,
                   req |-> <<>>]]

\* lines 131-189 after the lazy login l, the try having ended as b
FetchOutcome(l, b) ==
    LET out == [ret |-> b.ret, raised |-> FALSE, token |-> l.out.token,
                req |-> l.out.req \o b.req, logins |-> IF l.needed THEN 1 ELSE 0,
                log |-> l.out.log \o b.log]
    IN IF b.exc THEN FetchExcept(out) ELSE out

\* lines 127-189 after the lazy login l
FetchWith(l, box, listMode, detailMode) ==
    IF l.needed /\ l.out.raised
    THEN [ret |-> NoneV, raised |-> TRUE, token |-> l.out.token, log |-> l.out.log,
          req |-> l.out.req, logins |-> 1]
    ELSE IF LoginFailed(l.needed, l.out.ret)
    THEN [ret |-> NoneV, raised |-> FALSE, token |-> l.out.token, log |-> l.out.log,
          req |-> l.out.req, logins |-> 1]
    ELSE FetchOutcome(l, FetchTry(l.out.token, box, listMode, detailMode))

\* lines 125-189; loginRes is used only when no token is held
FetchVerificationCode(loginRes, box, listMode, detailMode) ==
    FetchWith(EnsureToken(loginRes), box, listMode, detailMode)

(***************************************************************************)
(* DuckMailClient.poll_for_code                                            *)
(***************************************************************************)
\* one attempt more than the budget allows
MaxRetriesRoundedUp(timeout, interval) == timeout \div interval + 1

\* line 204
MaxRetries(timeout, interval) == timeout \div interval

\* the sleep also follows the last attempt
SleepsAfterEvery(i, max_retries) == i <= max_retries

\* line 213
SleepsAfter(i, max_retries) == i < max_retries

\* a fetch that gave nothing ends the loop as well
FoundAlways(code) == TRUE

\* line 209: if code
Found(code) == Truthy(code)

\* the failed login is not noticed
GivesUpNever(needed, ok) == FALSE

\* lines 198-201: does poll_for_code give up before polling
GivesUp(needed, ok) == needed /\ ~ok

IdlePoll ==
    [pc |-> "idle", timeout |-> 0, interval |-> 0, max_retries |-> 0, i |-> 0,
     fetches |-> 0, sleeps |-> 0, logins |-> 0, token0 |-> NoneV, login_ok |-> TRUE,
     ret |-> NoneV, raised |-> FALSE]

\* ok: what register or login returned; ret: what fetch returned; box, listMode
\* and detailMode: the provider the fetch talked to
NoReturn ==
    [op |-> "none", ok |-> FALSE, ret |-> NoneV, raised |-> FALSE, box |-> <<>>,
     listMode |-> "none", detailMode |-> "none"]

\* no operation is in progress and the caller has taken the last result
Free == poll = IdlePoll /\ mret = NoReturn /\ log = <<>> /\ requests = <<>>

\* does the operation with result out end with an exception
Escaped(out) == out.raised \/ LogRaised(log_callback, out.log)

(***************************************************************************)
(* What the callers and the provider may supply.                           *)
(***************************************************************************)
Rands == {Repeat("a", RandLen), Repeat("7", RandLen)}
Stamps == {Repeat("0", StampLen)}
Domains == {NoneV, Str(<<"p.org">>)}
Credentials == {[email |-> Str(<<"u@x.org">>), password |-> Str(<<"secret">>)]}

DomainResponses ==
    { TransportError,
      Response(200, <<"x">>, Invalid),
      Response(200, Ok, [Dict EXCEPT !.members = <<Member(NoneV, NoneV)>>]),
      Response(200, Ok, [Dict EXCEPT !.members = <<Member(NoneV, Str(<<"p.org">>))>>]) }

RegisterResponses ==
    { TransportError,
      Response(422, <<"e">>, Dict),
      Response(200, <<>>, Dict),
      Response(200, <<"x">>, Invalid),
      Response(200, <<"[", "]">>, NotADict),
      Response(201, Ok, [Dict EXCEPT !.id = Str(<<"id1">>)]) }

LoginResponses ==
    { TransportError,
      Response(401, <<"e">>, Dict),
      Response(200, <<>>, Dict),
      Response(200, <<"x">>, Invalid),
      Response(200, <<"[", "]">>, NotADict),
      Response(200, Ok, Dict),
      Response(200, Body(Str(<<>>)), [Dict EXCEPT !.token = Str(<<>>)]),
      Response(200, <<"{", "7", "}">>, [Dict EXCEPT !.token = NumV]),
      Response(200, Body(TokenA), [Dict EXCEPT !.token = TokenA]),
      Response(200, Body(TokenB), [Dict EXCEPT !.token = TokenB]) }

Faults == {"exc", "denied", "empty", "invalid", "other"}

\* "hi", "123456", and "code: AB12CD" in two fragments
TextPlain == <<"h", "i">>
TextDigits == <<"1", "2", "3", "4", "5", "6">>
TextLabel == <<"c", "o", "d", "e", ":", " ">>
TextToken == <<"A", "B", "1", "2", "C", "D">>

MsgPlain == Message(Str(<<"m1">>), Str(TextPlain), NoneV)
MsgDigits == Message(Str(<<"m2">>), NoneV, Str(TextDigits))
MsgLabeled == Message(Str(<<"m3">>), [kind |-> "list", s |-> <<TextLabel, TextToken>>], Str(<<>>))
MsgNoId == Message(NoneV, Str(TextDigits), NoneV)
MsgBad == Message(Str(<<"m5">>), NumV, Str(TextDigits))

Boxes ==
    { <<>>, <<MsgPlain>>, <<MsgLabeled>>, <<MsgNoId>>, <<MsgBad>>,
      <<MsgPlain, MsgDigits>>, <<MsgDigits, MsgPlain>> }

\* what the provider does during one fetch: its mailbox, and how it answers
\* the listing and the read
Provider(box, listMode, detailMode) ==
    [box |-> box, listMode |-> listMode, detailMode |-> detailMode]
Providers ==
    {Provider(box, "ok", "ok") : box \in Boxes}
    \cup {Provider(<<>>, mode, "ok") : mode \in Faults}
    \cup {Provider(<<MsgLabeled>>, "ok", mode) : mode \in Faults}

\* the constructor arguments and the body-logging switch
Configs ==
    { [api_key |-> <<>>, log_callback |-> "ok", log_body |-> FALSE],
      [api_key |-> <<"key">>, log_callback |-> "raises", log_body |-> TRUE],
      [api_key |-> <<>>, log_callback |-> "none", log_body |-> FALSE] }

\* the answers to the lazy login and to the fetch that follows it: the fetch
\* only happens after a login that returned a token
LazyLogins == IF Truthy(token) THEN {TransportError} ELSE LoginResponses
ProvidersAfter(loginRes) ==
    IF Truthy(token) \/ (~loginRes.exc /\ Truthy(loginRes.json.token))
    THEN Providers ELSE {Provider(<<>>, "ok", "ok")}

(***************************************************************************)
(* The session's operations as its single caller runs them.                *)
(***************************************************************************)
SetCredentials(c) ==
    /\ Free
    /\ email' = c.email
    /\ password' = c.password
    /\ log' = <<>>
    /\ requests' = <<>>
    /\ mret' = [NoReturn EXCEPT !.op = "set_credentials"]
    /\ poll' = IdlePoll
    /\ UNCHANGED <<account_id, token, api_key, log_callback, log_body>>

Register(domain, rand, stamp, domRes, res) ==
    /\ Free
    /\ \E out \in {RegisterAccount(domain, rand, stamp, domRes, res)} :
        /\ email' = out.email
        /\ password' = out.password
        /\ account_id' = out.account_id
        /\ log' = out.log
        /\ requests' = out.req
        /\ mret' = [NoReturn EXCEPT !.op = "register", !.ok = out.ret,
                                    !.raised = Escaped(out)]
    /\ poll' = IdlePoll
    /\ UNCHANGED <<token, api_key, log_callback, log_body>>

Authenticate(res) ==
    /\ Free
    /\ \E out \in {Login(res)} :
        /\ token' = out.token
        /\ log' = out.log
        /\ requests' = out.req
        /\ mret' = [NoReturn EXCEPT !.op = "login", !.ok = out.ret, !.raised = Escaped(out)]
    /\ poll' = IdlePoll
    /\ UNCHANGED <<email, password, account_id, api_key, log_callback, log_body>>

Fetch(loginRes, p) ==
    /\ Free
    /\ \E out \in {FetchVerificationCode(loginRes, p.box, p.listMode, p.detailMode)} :
        /\ token' = out.token
        /\ log' = out.log
        /\ requests' = out.req
        /\ mret' = [NoReturn EXCEPT !.op = "fetch", !.ret = out.ret,
                                    !.raised = Escaped(out), !.box = p.box,
                                    !.listMode = p.listMode,
                                    !.detailMode = p.detailMode]
    /\ poll' = IdlePoll
    /\ UNCHANGED <<email, password, account_id, api_key, log_callback, log_body>>

\* the caller takes the result of the operation that has returned
Return ==
    /\ poll.pc \in {"idle", "done"}
    /\ ~Free
    /\ log' = <<>>
    /\ requests' = <<>>
    /\ mret' = NoReturn
    /\ poll' = IdlePoll
    /\ UNCHANGED <<email, password, account_id, token, api_key, log_callback, log_body>>

\* lines 198-204: the lazy login, then the number of attempts
PollBegin(timeout, interval, loginRes) ==
    /\ Free
    /\ \E l \in {EnsureToken(loginRes)} :
       \E frame \in {[IdlePoll EXCEPT !.timeout = timeout, !.interval = interval,
                                      !.token0 = token, !.login_ok = l.out.ret,
                                      !.logins = IF l.needed THEN 1 ELSE 0]} :
        /\ token' = l.out.token
        /\ requests' = l.out.req
        /\ IF GivesUp(l.needed, l.out.ret)
           THEN /\ log' = l.out.log \o LogCall("error", "DuckMail token missing", <<>>)
                /\ poll' = [frame EXCEPT !.pc = "done", !.ret = NoneV]
           ELSE /\ log' = l.out.log \o LogCall("info", "DuckMail polling for code", <<>>)
                /\ IF interval = 0
                   THEN poll' = [frame EXCEPT !.pc = "done", !.raised = TRUE]
                   ELSE poll' = [frame EXCEPT !.pc = "attempt", !.i = 1,
                                              !.max_retries = MaxRetries(timeout, interval)]
    /\ mret' = [NoReturn EXCEPT !.op = "poll"]
    /\ UNCHANGED <<email, password, account_id, api_key, log_callback, log_body>>

\* lines 206-213: one pass of the loop up to the sleep
PollAttempt(loginRes, p) ==
    /\ poll.pc = "attempt"
    /\ poll.i <= poll.max_retries
    /\ \E out \in {FetchVerificationCode(loginRes, p.box, p.listMode, p.detailMode)} :
       \E head \in {LogCall("info", "DuckMail attempt i/max", <<>>) \o out.log},
          counted \in {[poll EXCEPT !.fetches = @ + 1, !.logins = @ + out.logins]} :
        /\ token' = out.token
        /\ requests' = out.req
        /\ IF Escaped(out)
           THEN /\ log' = head
                /\ poll' = [counted EXCEPT !.pc = "done", !.raised = TRUE]
           ELSE IF Found(out.ret)
           THEN /\ log' = head \o LogCall("info", "DuckMail code found", out.ret.s)
                /\ poll' = [counted EXCEPT !.pc = "done", !.ret = out.ret]
           ELSE /\ log' = head
                /\ IF SleepsAfter(poll.i, poll.max_retries)
                   THEN poll' = [counted EXCEPT !.pc = "sleep"]
                   ELSE poll' = [counted EXCEPT !.i = @ + 1]
    /\ UNCHANGED <<email, password, account_id, api_key, log_callback, log_body, mret>>

\* line 214: time.sleep(interval), then the next pass
PollSleep ==
    /\ poll.pc = "sleep"
    /\ poll' = [poll EXCEPT !.sleeps = @ + 1, !.i = @ + 1, !.pc = "attempt"]
    /\ log' = <<>>
    /\ requests' = <<>>
    /\ UNCHANGED <<email, password, account_id, token, api_key, log_callback, log_body, mret>>

\* lines 216-217: the loop is exhausted
PollTimeout ==
    /\ poll.pc = "attempt"
    /\ poll.i > poll.max_retries
    /\ log' = LogCall("error", "DuckMail code timeout", <<>>)
    /\ requests' = <<>>
    /\ poll' = [poll EXCEPT !.pc = "done", !.ret = NoneV]
    /\ UNCHANGED <<email, password, account_id, token, api_key, log_callback, log_body, mret>>

(***************************************************************************)
(* BaseTaskService._apply_accounts_update.  A handle (the account manager) *)
(* is a number; the rebuild routine update_accounts_config, the statistics *)
(* provider and the rebind callback are the caller's.                      *)
(***************************************************************************)
VARIABLES
    multi_account_mgr,      \* self.multi_account_mgr: the held handle
    set_multi_account_mgr,  \* self.set_multi_account_mgr: "none", "ok" or "raises"
    upd                     \* the last _apply_accounts_update call, as its callees saw it

acctVars == <<multi_account_mgr, set_multi_account_mgr, upd>>

Handles == 0..MaxHandle
\* the handle given to the constructor
InitialHandle == 0

\* line 152: self.global_stats_provider() or {}
GlobalStats(provided) == IF provided \in {"none", "empty"} THEN "empty" ELSE provided

\* the rebuild starts from the handle of the constructor, not from the held one
RebuildArgsInitial(accounts_data, mgr, stats) ==
    [accounts_data |-> accounts_data, current |-> InitialHandle, global_stats |-> stats]

\* lines 153-162: the arguments update_accounts_config is called with
RebuildArgs(accounts_data, mgr, stats) ==
    [accounts_data |-> accounts_data, current |-> mgr, global_stats |-> stats]

\* the callback is called with the handle held before the update
RebindsOld(cb, new_mgr) == IF cb # "none" THEN <<multi_account_mgr>> ELSE <<>>

\* lines 164-165: the handles the rebind callback is called with
Rebinds(cb, new_mgr) == IF cb # "none" THEN <<new_mgr>> ELSE <<>>

\* no call made yet; held: the handle held when the call began; stored: the
\* handle line 163 stored last (the constructor's before that)
NoUpdate ==
    [calls |-> 0, held |-> InitialHandle, rebuild |-> None, returned |-> None,
     rebinds |-> <<>>, raised |-> FALSE, stored |-> InitialHandle]

\* lines 145-165; provided: what the statistics provider returns, or "raises";
\* rebuilt: update_accounts_config raises, or the handle it returns
ApplyAccountsUpdate(accounts_data, provided, rebuilt) ==
    \E begun \in {[NoUpdate EXCEPT !.calls = 1, !.held = multi_account_mgr,
                                   !.stored = upd.stored]} :
        /\ IF provided = "raises"
           THEN /\ upd' = [begun EXCEPT !.raised = TRUE]
                /\ UNCHANGED multi_account_mgr
           ELSE IF rebuilt.raises
           THEN /\ upd' = [begun EXCEPT
                              !.rebuild = Some(RebuildArgs(accounts_data, multi_account_mgr,
                                                           GlobalStats(provided))),
                              !.raised = TRUE]
                /\ UNCHANGED multi_account_mgr
           ELSE /\ multi_account_mgr' = rebuilt.handle
                /\ upd' = [begun EXCEPT
                              !.rebuild = Some(RebuildArgs(accounts_data, multi_account_mgr,
                                                           GlobalStats(provided))),
                              !.returned = Some(rebuilt.handle),
                              !.stored = rebuilt.handle,
                              !.rebinds = Rebinds(set_multi_account_mgr, rebuilt.handle),
                              !.raised = (set_multi_account_mgr = "raises")]
        /\ UNCHANGED set_multi_account_mgr

\* what the callers may supply
AccountsData == {"one account", "two accounts"}
StatsProvided == {"none", "empty", "stats", "raises"}
Callbacks == {"none", "ok", "raises"}
Rebuilt ==
    {[raises |-> TRUE, handle |-> InitialHandle]}
    \cup {[raises |-> FALSE, handle |-> h] : h \in Handles}

\* BaseTaskService.__init__, lines 99-106
AcctInit ==
    /\ multi_account_mgr = InitialHandle
    /\ set_multi_account_mgr \in Callbacks
    /\ upd = NoUpdate

\* a service whose accounts nobody updates
AcctIdle ==
    /\ multi_account_mgr = InitialHandle
    /\ set_multi_account_mgr = "none"
    /\ upd = NoUpdate

(***************************************************************************)
(* DuckMailClient._extract_code called on its own.                         *)
(***************************************************************************)
VARIABLES
    extraction   \* the text given to _extract_code and, once it returned, the result

\* the pieces the texts are made of: a keyword with its colon, a keyword
\* without, a colon, tokens of each kind, and words that are none
Pieces ==
    { <<"c", "o", "d", "e", ":">>, <<"P", "I", "N">>, <<":">>,
      <<"A", "B", "1", "2", "C", "D">>, <<"1", "A", "2", "B", "3", "C">>,
      <<"1", "2", "3", "4", "5", "6">>, <<"A", "B", "C", "D", "E", "F">>,
      <<"a", "b", "1", "2">>, <<"h", "i">> }

RECURSIVE Spaced(_)
\* the pieces, one space between two
Spaced(pieces) ==
    IF pieces = <<>> THEN <<>>
    ELSE IF Len(pieces) = 1 THEN pieces[1]
    ELSE pieces[1] \o <<" ">> \o Spaced(Tail(pieces))

\* the examples of the specification
ExampleLabeled == <<"Y", "o", "u", "r", " ", "v", "e", "r", "i", "f", "i", "c", "a", "t", "i", "o", "n", " ", "c", "o", "d", "e", ":", " ", "A", "B", "1", "2", "C", "D">>
ExampleDigits == <<"O", "T", "P", " ", "1", "2", "3", "4", "5", "6", " ", "e", "x", "p", "i", "r", "e", "s", " ", "s", "o", "o", "n">>
ExampleLetters == <<"o", "r", "d", "e", "r", " ", "A", "B", "C", "D", "E", "F", " ", "s", "h", "i", "p", "p", "e", "d">>
ExampleMixed == <<"m", "i", "x", " ", "1", "A", "2", "B", "3", "C", " ", "c", "o", "n", "f", "i", "r", "m", "e", "d">>

Texts ==
    {Spaced(pieces) : pieces \in UNION {[1..n -> Pieces] : n \in 0..MaxPieces}}
    \cup {ExampleLabeled, ExampleDigits, ExampleLetters, ExampleMixed}

NotExtracted(text) == [text |-> text, done |-> FALSE, code |-> NoneV]

\* lines 239-264: one call of _extract_code
Extract ==
    /\ ~extraction.done
    /\ extraction' = [extraction EXCEPT !.done = TRUE, !.code = ExtractCode(extraction.text)]

ExtractInit == extraction \in {NotExtracted(text) : text \in Texts}

\* nothing is given to _extract_code on its own
ExtractIdle == extraction = NotExtracted(<<>>)

vars == <<taskVars, mailVars, acctVars, extraction>>

TaskInit ==
    /\ tasks = <<>>
    /\ current_task_id = None
    /\ log_lock = None
    /\ pc = [th \in Threads |-> Idle]
    /\ queue = <<>>
    /\ history = <<>>
    /\ logger_out = None
    /\ ret = None
    /\ called = NoCall

\* DuckMailClient.__init__, lines 22-31
MailInit ==
    /\ email = NoneV
    /\ password = NoneV
    /\ account_id = NoneV
    /\ token = NoneV
    /\ \E c \in Configs :
          /\ api_key = c.api_key
          /\ log_callback = c.log_callback
          /\ log_body = c.log_body
    /\ log = <<>>
    /\ requests = <<>>
    /\ mret = NoReturn
    /\ poll = IdlePoll

\* a session nobody uses
MailIdle ==
    /\ email = NoneV
    /\ password = NoneV
    /\ account_id = NoneV
    /\ token = NoneV
    /\ api_key = <<>>
    /\ log_callback = "none"
    /\ log_body = FALSE
    /\ log = <<>>
    /\ requests = <<>>
    /\ mret = NoReturn
    /\ poll = IdlePoll

Init == TaskInit /\ MailIdle /\ AcctIdle /\ ExtractIdle

Next ==
    \/ \E id \in TaskIds : Submit(id) /\ UNCHANGED <<mailVars, acctVars, extraction>>
    \/ WorkerStart /\ UNCHANGED <<mailVars, acctVars, extraction>>
    \/ \E t \in TaskIds, ok \in BOOLEAN : JobCount(t, ok) /\ UNCHANGED <<mailVars, acctVars, extraction>>
    \/ \E t \in TaskIds : JobSucceed(t) /\ UNCHANGED <<mailVars, acctVars, extraction>>
    \/ \E t \in TaskIds : JobFail(t) /\ UNCHANGED <<mailVars, acctVars, extraction>>
    \/ \E th \in Threads, t \in TaskIds, level \in JobLevels :
          TaskAppendLog(th, t, level) /\ UNCHANGED <<mailVars, acctVars, extraction>>
    \/ \E th \in Threads : AppendLogFinish(th) /\ UNCHANGED <<mailVars, acctVars, extraction>>
    \/ \E id \in TaskIds : GetTask(id) /\ UNCHANGED <<mailVars, acctVars, extraction>>
    \/ GetCurrentTask /\ UNCHANGED <<mailVars, acctVars, extraction>>

Spec == Init /\ [][Next]_vars

\* one task object, as constructed, and a service holding it
LogInit ==
    /\ tasks = (1 :> BaseTask(1, Now))
    /\ current_task_id = Some(1)
    /\ log_lock = None
    /\ pc = [th \in Threads |-> Idle]
    /\ queue = <<>>
    /\ history = (1 :> <<>>)
    /\ logger_out = None
    /\ ret = None
    /\ called = NoCall
    /\ MailIdle
    /\ AcctIdle
    /\ ExtractIdle

LogNext ==
    \/ \E th \in Threads, level \in Levels : BufferAppendLog(th, level) /\ UNCHANGED <<mailVars, acctVars, extraction>>
    \/ \E th \in Threads : AppendLogFinish(th) /\ UNCHANGED <<mailVars, acctVars, extraction>>
    \/ ToDict(1) /\ UNCHANGED <<mailVars, acctVars, extraction>>

SpecLog == LogInit /\ [][LogNext]_vars

MailNext ==
    \/ \E c \in Credentials : SetCredentials(c) /\ UNCHANGED <<taskVars, acctVars, extraction>>
    \/ \E domain \in Domains, rand \in Rands, stamp \in Stamps, res \in RegisterResponses :
          \E domRes \in IF Truthy(domain) THEN {TransportError} ELSE DomainResponses :
              Register(domain, rand, stamp, domRes, res) /\ UNCHANGED <<taskVars, acctVars, extraction>>
    \/ \E res \in LoginResponses : Authenticate(res) /\ UNCHANGED <<taskVars, acctVars, extraction>>
    \/ \E loginRes \in LazyLogins : \E p \in ProvidersAfter(loginRes) :
          Fetch(loginRes, p) /\ UNCHANGED <<taskVars, acctVars, extraction>>
    \/ \E timeout \in 0..MaxTimeout, interval \in 0..MaxInterval, loginRes \in LazyLogins :
          PollBegin(timeout, interval, loginRes) /\ UNCHANGED <<taskVars, acctVars, extraction>>
    \/ \E loginRes \in LazyLogins : \E p \in ProvidersAfter(loginRes) :
          PollAttempt(loginRes, p) /\ UNCHANGED <<taskVars, acctVars, extraction>>
    \/ PollSleep /\ UNCHANGED <<taskVars, acctVars, extraction>>
    \/ PollTimeout /\ UNCHANGED <<taskVars, acctVars, extraction>>
    \/ Return /\ UNCHANGED <<taskVars, acctVars, extraction>>

\* a session as constructed, beside a task service nobody uses
InitMail == TaskInit /\ MailInit /\ AcctIdle /\ ExtractIdle

SpecMail == InitMail /\ [][MailNext]_vars

\* lines 206-217: a step of the loop of poll_for_code
PollStep ==
    \/ \E loginRes \in LazyLogins : \E p \in ProvidersAfter(loginRes) :
          PollAttempt(loginRes, p) /\ UNCHANGED <<taskVars, acctVars, extraction>>
    \/ PollSleep /\ UNCHANGED <<taskVars, acctVars, extraction>>
    \/ PollTimeout /\ UNCHANGED <<taskVars, acctVars, extraction>>

\* the thread that called poll_for_code goes on running it: every provider
\* call returns or raises, and time.sleep(interval) returns
SpecMailFair == InitMail /\ [][MailNext]_vars /\ WF_vars(PollStep)

\* a service as constructed, its accounts being updated by one caller at a time
InitAccounts == TaskInit /\ MailIdle /\ AcctInit /\ ExtractIdle

AccountsNext ==
    \E accounts_data \in AccountsData, provided \in StatsProvided,
       rebuilt \in Rebuilt :
        ApplyAccountsUpdate(accounts_data, provided, rebuilt)
            /\ UNCHANGED <<taskVars, mailVars, extraction>>

SpecAccounts == InitAccounts /\ [][AccountsNext]_vars

\* _extract_code applied to each of the texts
InitExtract == TaskInit /\ MailIdle /\ AcctIdle /\ ExtractInit

ExtractNext == Extract /\ UNCHANGED <<taskVars, mailVars, acctVars>>

SpecExtract == InitExtract /\ [][ExtractNext]_vars

(***************************************************************************)
(* Properties of the task service                                          *)
(***************************************************************************)
\* the last n elements of a sequence
LastN(seq, n) == SubSeq(seq, Len(seq) - n + 1, Len(seq))

\* C1: once the N calls of _append_log made on a task have returned, the
\* task's logs are the last min(N, 200) entries appended, in append order
C1_LastEntriesKept ==
    log_lock = None =>
        \A t \in DOMAIN tasks :
            tasks[t].logs = LastN(history[t], Min(Len(history[t]), LogCap))

\* more than 200 calls have been made and all have returned
C1_Witness ==
    /\ log_lock = None
    /\ Len(history[1]) > LogCap
    /\ Len(tasks[1].logs) = LogCap

\* C2: what a reader obtains from to_dict, at any moment, holds at most 200
\* log entries
C2_ReaderSeesAtMostCap ==
    ret # None => Len(ret[1].logs) <= LogCap

\* C3: at most one task is Pending or Running at any time
C3_SingleActive == Cardinality(Active) <= 1

\* C4 as stated: no step changes any field of a task whose status is Success
\* or Failed
C4_TerminalFrozen ==
    [][\A t \in DOMAIN tasks : tasks[t].status \in Terminal => tasks'[t] = tasks[t]]_vars

\* C4 as amended: a task whose status is Success or Failed keeps its status,
\* counters, results, error and finished_at; _append_log called on it still
\* appends the entry, and its logs change in no other way than by an append
\* or by the cut to the last 200
C4_TerminalFrozenButLogs ==
    [][\A t \in DOMAIN tasks : tasks[t].status \in Terminal =>
        /\ tasks'[t] = [tasks[t] EXCEPT !.logs = tasks'[t].logs]
        /\ \/ tasks'[t].logs = tasks[t].logs
           \/ /\ Len(tasks'[t].logs) = Len(tasks[t].logs) + 1
              /\ SubSeq(tasks'[t].logs, 1, Len(tasks[t].logs)) = tasks[t].logs
           \/ /\ Len(tasks[t].logs) > LogCap
              /\ tasks'[t].logs = LastN(tasks[t].logs, LogCap)
        /\ \A th \in Threads :
              (pc[th] = Idle /\ pc'[th].at = "appended" /\ pc'[th].task = t) =>
                  /\ Len(tasks'[t].logs) = Len(tasks[t].logs) + 1
                  /\ tasks'[t].logs[Len(tasks'[t].logs)].message = pc'[th].message
                  /\ tasks'[t].logs[Len(tasks'[t].logs)].level = pc'[th].level
    ]_vars

\* a thread is inside _append_log on a task that was already Success or Failed
\* when the entry was appended
C4_Witness ==
    \E th \in Threads :
        /\ pc[th].at = "appended"
        /\ pc[th].status \in Terminal
        /\ tasks[pc[th].task].logs # <<>>

(***************************************************************************)
(* Properties of the mail session                                          *)
(***************************************************************************)
\* poll_for_code got past its lazy login
Polling == poll.pc # "idle" /\ ~(~Truthy(poll.token0) /\ ~poll.login_ok)

\* C5: with interval > 0, poll_for_code fetches at most timeout div interval
\* times; when timeout < interval it returns absent without a fetch or a sleep
C5_AttemptsBounded ==
    (poll.pc # "idle" /\ poll.interval > 0) =>
        /\ poll.fetches <= poll.timeout \div poll.interval
        /\ (poll.pc = "done" /\ poll.timeout < poll.interval) =>
              /\ poll.fetches = 0
              /\ poll.sleeps = 0
              /\ poll.ret = NoneV
              /\ ~poll.raised

\* a poll with timeout < interval has returned after its login went through
C5_Witness ==
    /\ Polling
    /\ poll.pc = "done"
    /\ poll.interval > 0
    /\ poll.timeout < poll.interval
    /\ poll.logins = 1

\* C6: poll_for_code sleeps only between two attempts: a code found at attempt
\* k is returned after k fetches and k - 1 sleeps; without a code it returns
\* absent after max_retries fetches and, when max_retries >= 1,
\* max_retries - 1 sleeps
C6_SleepsBetweenAttempts ==
    (Polling /\ poll.interval > 0) =>
        /\ (poll.pc = "attempt" /\ poll.i <= poll.timeout \div poll.interval) =>
              poll.fetches = poll.i - 1 /\ poll.sleeps = poll.i - 1
        /\ (poll.pc = "attempt" /\ poll.i > poll.timeout \div poll.interval) =>
              /\ poll.fetches = poll.timeout \div poll.interval
              /\ poll.sleeps = Max(poll.timeout \div poll.interval - 1, 0)
        /\ poll.pc = "sleep" => poll.fetches = poll.i /\ poll.sleeps = poll.i - 1
        /\ poll.pc = "done" =>
              /\ ~poll.raised
              /\ Truthy(poll.ret) =>
                    /\ poll.fetches = poll.i
                    /\ poll.sleeps = poll.i - 1
                    /\ poll.i <= poll.timeout \div poll.interval
              /\ ~Truthy(poll.ret) =>
                    /\ poll.ret = NoneV
                    /\ poll.fetches = poll.timeout \div poll.interval
                    /\ poll.sleeps = Max(poll.timeout \div poll.interval - 1, 0)

\* the code was found at the second attempt of three
C6_Witness ==
    /\ Polling
    /\ poll.pc = "done"
    /\ Truthy(poll.ret)
    /\ poll.fetches = 2
    /\ poll.timeout \div poll.interval = 3

\* C7: poll_for_code called without a token, the login failing, returns absent
\* without a fetch or a sleep, its last _log call being the error
\* "DuckMail token missing", whatever timeout and interval are
C7_GivesUpWithoutToken ==
    (poll.pc # "idle" /\ ~Truthy(poll.token0) /\ ~poll.login_ok) =>
        /\ poll.pc = "done"
        /\ poll.ret = NoneV
        /\ ~poll.raised
        /\ poll.fetches = 0
        /\ poll.sleeps = 0
        /\ log # <<>>
        /\ log[Len(log)].level = "error"
        /\ log[Len(log)].text = "DuckMail token missing"

\* the login was tried, failed, and the interval is 0
C7_Witness ==
    /\ poll.pc = "done"
    /\ ~Truthy(poll.token0)
    /\ ~poll.login_ok
    /\ poll.interval = 0
    /\ poll.timeout > 0
    /\ requests # <<>>

\* a request that lists or reads messages
IsMessageRequest(req) == req.path \notin {"/domains", "/accounts", "/token"}

\* C8: every request that lists or reads messages carries a non-empty token
C8_MessagesNeedToken ==
    \A i \in DOMAIN requests :
        IsMessageRequest(requests[i]) =>
            /\ requests[i].auth # None
            /\ Truthy(requests[i].auth[1])

\* a fetch that logged in first and then listed and read a message
C8_Witness ==
    /\ mret.op = "fetch"
    /\ Len(requests) = 3
    /\ requests[1].path = "/token"
    /\ IsMessageRequest(requests[2])
    /\ IsMessageRequest(requests[3])

\* C9: no message passed to the log callback contains the whole token the
\* session holds
C9_TokenNeverLoggedWhole ==
    (token.kind = "str" /\ token.s # <<>>) =>
        \A i \in DOMAIN Passed(log_callback, log) :
            ~Contains(Passed(log_callback, log)[i].arg, token.s)

\* the messages of the handlers that catch an exception
CaughtTexts ==
    {"DuckMail register failed: e", "DuckMail login failed: e",
     "DuckMail fetch code failed: e"}
Caught == \E i \in DOMAIN log : log[i].text \in CaughtTexts

\* the _log calls that end a request: its failure or its response status
HttpEnds == SelectSeq(log, LAMBDA m : m.text \in {"[HTTP] Request failed", "[HTTP] Response"})

\* the statuses the operation takes for a success
GoodStatuses(op) == IF op = "register" THEN {<<"200">>, <<"201">>} ELSE {<<"200">>}

\* the operation's last request failed in transport or was answered with a
\* status that is no success
BadEnd ==
    /\ HttpEnds # <<>>
    /\ \/ HttpEnds[Len(HttpEnds)].text = "[HTTP] Request failed"
       \/ HttpEnds[Len(HttpEnds)].arg \notin GoodStatuses(mret.op)

Failure ==
    IF mret.op = "fetch" THEN mret.ret = NoneV ELSE mret.ok = FALSE

\* C10: register_account, login and fetch_verification_code never raise; when
\* the last request fails or is refused, or an exception is caught, register
\* and login return False and fetch returns None
C10_NothingEscapes ==
    mret.op \in {"register", "login", "fetch"} =>
        /\ ~mret.raised
        /\ (BadEnd \/ Caught) => Failure

\* an exception was caught while the log callback itself raises
C10_Witness ==
    /\ mret.op = "fetch"
    /\ log_callback = "raises"
    /\ Caught
    /\ Len(requests) >= 2

(***************************************************************************)
(* Properties of _apply_accounts_update                                    *)
(***************************************************************************)
\* C11: a call of _apply_accounts_update that completes leaves the service
\* holding the handle the rebuild returned, and has called the rebind callback,
\* if there is one, exactly once, with that handle
C11_HandleReplacedAndRebound ==
    (upd.calls = 1 /\ ~upd.raised) =>
        /\ upd.returned # None
        /\ multi_account_mgr = upd.returned[1]
        /\ set_multi_account_mgr # "none" => upd.rebinds = <<multi_account_mgr>>
        /\ set_multi_account_mgr = "none" => upd.rebinds = <<>>

\* a completed call replaced the held handle by another and rebound it
C11_Witness ==
    /\ upd.calls = 1
    /\ ~upd.raised
    /\ set_multi_account_mgr = "ok"
    /\ multi_account_mgr # upd.held
    /\ upd.rebinds = <<multi_account_mgr>>

\* C20: each rebuild is given the handle the service holds at that moment,
\* which is the handle the last rebuild that returned gave (the constructor's
\* before the first); when the statistics provider or the rebuild raises, the
\* held handle stays and the rebind callback is not called
C20_RebuildFromHeldHandle ==
    [][upd'.calls = 1 =>
        /\ upd'.rebuild # None =>
              /\ upd'.rebuild[1].current = multi_account_mgr
              /\ upd'.rebuild[1].current = upd.stored
        /\ upd'.returned = None =>
              /\ upd'.raised
              /\ multi_account_mgr' = multi_account_mgr
              /\ upd'.rebinds = <<>>
    ]_vars

\* after an update that replaced the handle, a rebuild started from the new
\* handle and raised
C20_Witness ==
    /\ upd.rebuild # None
    /\ upd.rebuild[1].current # InitialHandle
    /\ upd.returned = None
    /\ upd.raised
    /\ set_multi_account_mgr = "ok"

(***************************************************************************)
(* Properties of the lookups                                               *)
(***************************************************************************)
\* C14: get_task and get_current_task change neither the registry, nor the
\* current-task pointer, nor any task; get_task returns the registry's task of
\* that id, None for an unknown id; get_current_task returns None when no
\* current task is set, else the registry's task of the current id
C14_LookupsReadOnly ==
    [][/\ called'.op \in {"get_task", "get_current_task"} =>
            /\ tasks' = tasks
            /\ current_task_id' = current_task_id
            /\ queue' = queue
       /\ called'.op = "get_task" =>
            ret' = IF called'.arg \in DOMAIN tasks THEN Some(tasks[called'.arg]) ELSE None
       /\ called'.op = "get_current_task" =>
            ret' = IF current_task_id = None \/ current_task_id[1] \notin DOMAIN tasks
                   THEN None
                   ELSE Some(tasks[current_task_id[1]])
    ]_vars

\* get_task was asked for an id the registry, which holds a task, does not know
C14_Witness ==
    /\ called.op = "get_task"
    /\ called.arg \notin DOMAIN tasks
    /\ tasks # <<>>
    /\ ret = None

(***************************************************************************)
(* Properties of _extract_code                                             *)
(***************************************************************************)
\* the result of a finished extraction of text
Extracted(text) == extraction.done /\ extraction.text = text

\* the strategies' results in the order of the claim
InOrder(code, labeled, digits, mixed) ==
    /\ labeled # <<>> => code = Str(labeled)
    /\ (labeled = <<>> /\ digits # <<>>) => code = Str(digits)
    /\ (labeled = <<>> /\ digits = <<>> /\ mixed # <<>>) => code = Str(mixed)
    /\ code = NoneV <=> (labeled = <<>> /\ digits = <<>> /\ mixed = <<>>)

DigitsThenLabel == Spaced(<<<<"1", "2", "3", "4", "5", "6">>, <<"c", "o", "d", "e", ":">>, <<"a", "b", "1", "2">>>>)
MixedThenDigits == Spaced(<<<<"1", "A", "2", "B", "3", "C">>, <<"1", "2", "3", "4", "5", "6">>>>)
LettersThenMixed == Spaced(<<<<"A", "B", "C", "D", "E", "F">>, <<"1", "A", "2", "B", "3", "C">>>>)

\* C12: the labeled token is returned whenever there is one, also when a
\* 6-digit run or a mixed run stands earlier in the text; else the first
\* standalone 6-digit run, also when a mixed run stands earlier; else the
\* mixed run; None only when none of the three strategies matches
C12_StrategiesInOrder ==
    extraction.done =>
        /\ InOrder(extraction.code, Labeled(extraction.text),
                   SixDigits(extraction.text), Mixed(extraction.text))
        /\ extraction.text = ExampleLabeled => extraction.code = Str(<<"A", "B", "1", "2", "C", "D">>)
        /\ extraction.text = ExampleDigits => extraction.code = Str(<<"1", "2", "3", "4", "5", "6">>)
        /\ extraction.text = DigitsThenLabel => extraction.code = Str(<<"a", "b", "1", "2">>)
        /\ extraction.text = MixedThenDigits => extraction.code = Str(<<"1", "2", "3", "4", "5", "6">>)

\* "123456 code: ab12" gave the labeled token although the digits come first
C12_Witness ==
    /\ Extracted(DigitsThenLabel)
    /\ SixDigits(extraction.text) = <<"1", "2", "3", "4", "5", "6">>
    /\ extraction.code = Str(<<"a", "b", "1", "2">>)

\* the standalone runs of 6 upper-case letters or digits of text that hold a
\* letter and a digit
MixedRuns(text) ==
    {p \in StandaloneRuns(text, IsUpperOrDigit) :
        /\ \E j \in p..(p + 5) : text[j] \in Uppers
        /\ \E j \in p..(p + 5) : text[j] \in Digits}

FirstMixedRun(text, runs) ==
    IF runs = {} THEN NoneV ELSE Str(SubSeq(text, First(runs), First(runs) + 5))

\* C13: with no labeled match and no standalone 6-digit run the result is the
\* first standalone run of 6 upper-case letters or digits that holds a letter
\* and a digit, pure-letter runs before it skipped, and None when there is no
\* such run
C13_FirstMixedRun ==
    (/\ extraction.done
     /\ Labeled(extraction.text) = <<>>
     /\ SixDigits(extraction.text) = <<>>) =>
        /\ extraction.code = FirstMixedRun(extraction.text, MixedRuns(extraction.text))
        /\ extraction.text = ExampleLetters => extraction.code = NoneV
        /\ extraction.text = ExampleMixed => extraction.code = Str(<<"1", "A", "2", "B", "3", "C">>)
        /\ extraction.text = LettersThenMixed => extraction.code = Str(<<"1", "A", "2", "B", "3", "C">>)

\* "ABCDEF 1A2B3C" gave the second run
C13_Witness ==
    /\ Extracted(LettersThenMixed)
    /\ Labeled(extraction.text) = <<>>
    /\ SixDigits(extraction.text) = <<>>
    /\ extraction.code = Str(<<"1", "A", "2", "B", "3", "C">>)

(***************************************************************************)
(* Properties of the session's credentials and token                       *)
(***************************************************************************)
\* the addresses register_account can generate
Generated ==
    {Address(rand, stamp, domain) :
        rand \in Rands, stamp \in Stamps, domain \in {DefaultDomain, <<"p.org">>}}

\* C15: once register_account has generated the address and the password, no
\* later login, fetch, poll or register_account call changes them
C15_CredentialsKept ==
    [][(email \in Generated /\ mret'.op # "set_credentials") =>
            (email' = email /\ password' = password)]_vars

\* C16: a login that returns False leaves the held token as it was
C16_TokenOnlyOnSuccess ==
    [][(mret'.op = "login" /\ ~mret'.ok) => token' = token]_vars

(***************************************************************************)
(* Properties of the polling loop                                          *)
(***************************************************************************)
\* C17: with interval > 0 a poll_for_code call that entered its loop returns:
\* a code, or None after timeout div interval attempts, its last _log call
\* being the error "DuckMail code timeout"; an attempt whose fetch gave
\* nothing (a status other than 200, no message, an exception) neither ends
\* the loop nor changes the number of attempts
C17_PollTerminates ==
    /\ (poll.pc \in {"attempt", "sleep"} /\ poll.interval > 0) ~> (poll.pc = "done")
    /\ [][(poll'.fetches = poll.fetches + 1 /\ ~Truthy(poll'.ret)) =>
              /\ poll'.pc \in {"attempt", "sleep"}
              /\ ~poll'.raised
              /\ poll'.max_retries = poll.max_retries
              /\ poll'.timeout = poll.timeout
              /\ poll'.interval = poll.interval]_vars
    /\ []((Polling /\ poll.pc = "done" /\ poll.interval > 0) =>
              /\ ~poll.raised
              /\ ~Truthy(poll.ret) =>
                    /\ poll.ret = NoneV
                    /\ poll.fetches = poll.timeout \div poll.interval
                    /\ log = LogCall("error", "DuckMail code timeout", <<>>))

\* the first of three attempts ended with an error-level log and the loop
\* sleeps before the second
C17_Witness ==
    /\ poll.pc = "sleep"
    /\ poll.fetches = 1
    /\ poll.max_retries = 3
    /\ \E k \in DOMAIN log : log[k].level \in {"error", "warning"}

(***************************************************************************)
(* Properties of fetch_verification_code                                   *)
(***************************************************************************)
\* the text, then the html, of the message m, a list's fragments joined
BodyOf(m) == Normalize(m.text) \o Normalize(m.html)

\* the listing and the read were answered with status 200 and a document, the
\* first message has an id and its text and html are strings, lists or absent
ReadFirst(r) ==
    /\ \E i \in DOMAIN requests : IsMessageRequest(requests[i])
    /\ r.listMode = "ok"
    /\ r.detailMode = "ok"
    /\ r.box # <<>>
    /\ Truthy(r.box[1].id)
    /\ r.box[1].text.kind # "num"
    /\ r.box[1].html.kind # "num"

\* C18: fetch_verification_code returns the code extracted from the first
\* listed message's text followed by its html, the fragments of a list joined
\* without a separator; it returns None when that message yields no code,
\* also when a later message of the listing holds one
C18_FirstMessageOnly ==
    mret.op = "fetch" =>
        /\ mret.box = <<>> => mret.ret = NoneV
        /\ mret.box # <<>> => mret.ret \in {NoneV, ExtractCode(BodyOf(mret.box[1]))}
        /\ ReadFirst(mret) => mret.ret = ExtractCode(BodyOf(mret.box[1]))
        /\ (ReadFirst(mret) /\ mret.box[1] = MsgLabeled) => mret.ret = Str(TextToken)
        /\ mret.box = <<MsgPlain, MsgDigits>> => mret.ret = NoneV

\* the first message "hi" was read and None returned although the second
\* message holds 123456
C18_Witness ==
    /\ mret.op = "fetch"
    /\ ReadFirst(mret)
    /\ mret.box = <<MsgPlain, MsgDigits>>
    /\ Len(requests) >= 2
    /\ mret.ret = NoneV

\* C19: one poll_for_code call logs in at most once, before its first attempt
\* and only when it was called without a token; no attempt logs in or changes
\* the token, whatever the provider answers to the listing
C19_OneLoginPerPoll ==
    /\ [](poll.pc # "idle" =>
            /\ poll.logins <= 1
            /\ poll.logins = 1 <=> ~Truthy(poll.token0)
            /\ poll.pc \in {"attempt", "sleep"} => Truthy(token))
    /\ [][poll.pc \in {"attempt", "sleep"} =>
            /\ token' = token
            /\ poll'.logins = poll.logins]_vars

\* a poll called without a token logged in once; its first listing was
\* answered with a status other than 200 and the loop goes on
C19_Witness ==
    /\ poll.pc = "sleep"
    /\ ~Truthy(poll.token0)
    /\ poll.logins = 1
    /\ poll.fetches = 1
    /\ Truthy(token)
    /\ \E k \in DOMAIN log : log[k].text = "DuckMail messages request failed"
====
